---------------------------- MODULE Spec2Model ----------------------------
(***************************************************************************)
(* Session synchronisation layer of the Battleship client                  *)
(* (src/frontend/app/page.tsx).  The file holds two GamePage components:   *)
(* the current one (lines 39-335) and an earlier draft (lines 343-532).    *)
(* Spec models the current component, SpecDraft the draft.                 *)
(*                                                                         *)
(* A step of the model is one task of the browser's event loop: a click    *)
(* handler, the continuation of startBotGame after its awaits, or one      *)
(* WebSocket event.  React state (gameId, status, winner, myBoard,         *)
(* enemyBoard) is taken as committed between tasks; socketRef is a ref and *)
(* is read and written directly.  A WebSocket follows the WHATWG rules:    *)
(* open and message events are delivered only to a socket that has not     *)
(* been closed, send() throws on a CONNECTING socket, transmits on an OPEN *)
(* one and silently discards the data on a CLOSING or CLOSED one.          *)
(***************************************************************************)
EXTENDS Integers, Sequences, FiniteSets, TLC

VARIABLES gameId, status, winner, myBoard, enemyBoard, socketRef,
          sockets, fetches, last, grid, shots

vars == <<gameId, status, winner, myBoard, enemyBoard, socketRef,
          sockets, fetches, last, grid, shots>>

\* grid is the array-level view of one board, followed in SpecGrid; shots is
\* the set of coordinates transmitted since the last startBotGame, followed
\* in SpecEngine.

\* the session, without the array-level view of a board kept in grid
session == <<gameId, status, winner, myBoard, enemyBoard, socketRef,
             sockets, fetches, last>>

----------------------------------------------------------------------------
(* Program constants and bounds *)

GRID_SIZE == 10

\* number of WebSocket objects one run may create
MaxSockets == 1

\* number of coordinates the server's turn updates and the clicks range over
MaxTargets == 1

\* number of updateGrid calls followed at the level of arrays (SpecGrid)
MaxUpdates == 2

\* number of creation requests in flight at once (SpecApi)
MaxFetches == 2

----------------------------------------------------------------------------
(* Types *)

CellState == {"Empty", "Hit", "Miss", "Ship"}

GameStatus == {"Disconnected", "Connecting...", "Battle Active",
               "VICTORY", "DEFEAT", "Error"}

\* the draft component's status is an unconstrained string
DraftStatus == {"Disconnected", "Connecting...", "Battle Active",
                "Winner: User", "Winner: Bot", "Error creating game"}

\* null / undefined / absent field
NONE == "null"

Winners == {"User", "Bot"}

Index == 0 .. (GRID_SIZE - 1)

createEmptyBoard == [r \in Index |-> [c \in Index |-> "Empty"]]


----------------------------------------------------------------------------
(* Inputs: coordinates, boards and inbound frames *)

Min(a, b) == IF a < b THEN a ELSE b

\* the coordinates of the spec's scenarios first, then the corners
UserTargets == << <<3, 4>>, <<7, 7>>, <<0, 0>>, <<9, 9>> >>
BotTargets  == << <<7, 7>>, <<3, 4>>, <<9, 9>>, <<0, 0>> >>

UserCells == {UserTargets[i] : i \in 1 .. Min(MaxTargets, Len(UserTargets))}
BotCells  == {BotTargets[i] : i \in 1 .. Min(MaxTargets, Len(BotTargets))}

\* the coordinates a click on the enemy grid may carry
ClickCells == UserCells \cup BotCells

\* opaque session identifiers the creation endpoint may answer with
SessionIds == {"abc123", "def456"}

\* a fleet layout the server may reveal in its init frame
FleetBoard ==
    [r \in Index |-> [c \in Index |->
        IF (r = 7 /\ c \in 5 .. 9) \/ (c = 4 /\ r \in 1 .. 4) \/ (r = 0 /\ c \in 0 .. 1)
        THEN "Ship" ELSE "Empty"]]

InitBoards == {createEmptyBoard, FleetBoard}

\* one side of a TurnUpdate: { row, col, result }, or absent
NoShot == [present |-> FALSE, row |-> 0, col |-> 0, result |-> "Empty"]

\* the outcomes the engine reports for a shot
ShotOutcomes == {"Hit", "Miss"}

ShotResults(cells) ==
    {[present |-> TRUE, row |-> rc[1], col |-> rc[2], result |-> res] :
        rc \in cells, res \in ShotOutcomes}

TurnUpdate ==
    [user : {NoShot} \cup ShotResults(UserCells),
     bot : {NoShot} \cup ShotResults(BotCells),
     winner : {NONE} \cup Winners]

NoTurn == [user |-> NoShot, bot |-> NoShot, winner |-> NONE]

\* An inbound frame: its text is JSON for an object ("object"), JSON for the
\* literal null ("null") or no JSON at all ("garbage"); an object carries the
\* optional fields of WSMessage.
BaseFrame ==
    [text |-> "object", type |-> NONE, status |-> NONE,
     hasBoard |-> FALSE, board |-> createEmptyBoard,
     hasTurn |-> FALSE, turn_update |-> NoTurn]

GarbageFrame == [BaseFrame EXCEPT !.text = "garbage"]
NullFrame == [BaseFrame EXCEPT !.text = "null"]
UnknownFrame == [BaseFrame EXCEPT !.type = "ping"]
InitFrame(b) == [BaseFrame EXCEPT !.type = "init", !.hasBoard = TRUE, !.board = b]
InitNoBoardFrame == [BaseFrame EXCEPT !.type = "init"]
SuccessFrame(tu) == [BaseFrame EXCEPT !.status = "success", !.hasTurn = TRUE, !.turn_update = tu]
SuccessNoTurnFrame == [BaseFrame EXCEPT !.status = "success"]
ErrorFrame == [BaseFrame EXCEPT !.status = "error"]

Frames ==
    {GarbageFrame, NullFrame, UnknownFrame, InitNoBoardFrame,
     SuccessNoTurnFrame, ErrorFrame}
    \cup {InitFrame(b) : b \in InitBoards}
    \cup {SuccessFrame(tu) : tu \in TurnUpdate}

----------------------------------------------------------------------------
(* Pure helpers *)

\* JSON.parse(event.data) followed by the first property read of the result:
\* a SyntaxError for text that is not JSON, a TypeError for the literal null
ParseThrows(frame) == frame.text \in {"garbage", "null"}

\* mutant of updateGrid: row and column exchanged
updateGridTransposed(board, row, col, result) ==
    [board EXCEPT ![col] = [board[col] EXCEPT ![row] = result]]

updateGrid(board, row, col, result) ==
    [board EXCEPT ![row] = [board[row] EXCEPT ![col] = result]]

\* WebSocket.close(): CONNECTING and OPEN become CLOSING, otherwise nothing
closeSocket(ws) ==
    [ws EXCEPT !.readyState = IF @ \in {"CONNECTING", "OPEN"} THEN "CLOSING" ELSE @,
               !.closeCalls = @ + 1]

\* new WebSocket(`${WS_URL}/ws/${id}`)
newWebSocket(id) == [id |-> id, readyState |-> "CONNECTING", closeCalls |-> 0]

Sockets == 1 .. Len(sockets)

\* what the last task was: the handler, the socket it ran for, the click's
\* coordinates or the frame delivered, whether data went out on the wire and
\* whether the handler ended in an uncaught exception
Step(op) ==
    [op |-> op, ws |-> 0, row |-> 0, col |-> 0, frame |-> BaseFrame,
     sent |-> FALSE, threw |-> FALSE]


----------------------------------------------------------------------------
(* updateGrid at the level of JavaScript arrays.  A board is an array of    *)
(* references to row arrays; grid.heap holds the row arrays, grid.board the *)
(* references of the current snapshot, grid.prev those of the snapshot the  *)
(* last update was given, grid.prevValue what that snapshot held then.      *)

\* Array.from({ length: GRID_SIZE }, () => Array(GRID_SIZE).fill("Empty")):
\* GRID_SIZE distinct rows
createEmptyBoardRows == [a \in 1 .. GRID_SIZE |-> [c \in Index |-> "Empty"]]
createEmptyBoardRefs == [r \in Index |-> r + 1]

\* the value a snapshot holds: the rows its references point to
Deref(heap, refs) == [r \in Index |-> heap[refs[r]]]

\* mutant of mapCopyRows: [...prev], a new outer array over the same rows
mapCopyRowsShallow(heap, prev) == [heap |-> heap, board |-> prev]

\* prev.map((r) => [...r]): a fresh row array for every row of prev
mapCopyRows(heap, prev) ==
    [heap |-> heap \o [i \in 1 .. GRID_SIZE |-> heap[prev[i - 1]]],
     board |-> [r \in Index |-> Len(heap) + r + 1]]

\* the updater updateGrid hands to setBoard:
\*   const newBoard = prev.map((r) => [...r]); newBoard[row][col] = result;
setBoardUpdater(heap, prev, row, col, result) ==
    LET copy == mapCopyRows(heap, prev)
    IN  [heap |-> [copy.heap EXCEPT ![copy.board[row]][col] = result],
         board |-> copy.board]

GridCells == {<<3, 4>>, <<3, 5>>, <<7, 7>>}

GridInit ==
    grid = [heap |-> createEmptyBoardRows, board |-> createEmptyBoardRefs,
            prev |-> createEmptyBoardRefs, prevValue |-> createEmptyBoard,
            row |-> 0, col |-> 0, result |-> "Empty", calls |-> 0]

applyUpdateGrid(row, col, result) ==
    /\ grid.calls < MaxUpdates
    /\ LET new == setBoardUpdater(grid.heap, grid.board, row, col, result)
       IN  grid' = [heap |-> new.heap, board |-> new.board,
                    prev |-> grid.board,
                    prevValue |-> Deref(grid.heap, grid.board),
                    row |-> row, col |-> col, result |-> result,
                    calls |-> grid.calls + 1]
    /\ UNCHANGED session

----------------------------------------------------------------------------
(* Initial state: the component as mounted *)

Init ==
    /\ gameId = ""
    /\ status = "Disconnected"
    /\ winner = NONE
    /\ myBoard = createEmptyBoard
    /\ enemyBoard = createEmptyBoard
    /\ socketRef = 0
    /\ sockets = << >>
    /\ fetches = 0
    /\ last = Step("mount")
    /\ GridInit
    /\ shots = {}

----------------------------------------------------------------------------
(* What is on screen: the only way to call startBotGame and handleShot *)

\* the "Start Mission" button (start screen) or the "Restart" button (game screen)
StartButtonRendered == gameId # "" \/ status # "Connecting..."

\* the enemy grid, whose cells call handleShot on click
EnemyGridRendered == gameId # ""

----------------------------------------------------------------------------
(* The current GamePage *)

\* mutant of connectToWebsocket: no test of socketRef.current
connectToWebsocketUnguarded(id) ==
    /\ sockets' = Append(sockets, newWebSocket(id))
    /\ socketRef' = Len(sockets) + 1

connectToWebsocket(id) ==
    IF socketRef # 0
    THEN UNCHANGED <<sockets, socketRef>>
    ELSE /\ sockets' = Append(sockets, newWebSocket(id))
         /\ socketRef' = Len(sockets) + 1

\* mutant of startBotGameSync: the old socket is dropped without close()
startBotGameSyncKeepsSocket ==
    /\ socketRef' = 0
    /\ winner' = NONE
    /\ gameId' = ""
    /\ myBoard' = createEmptyBoard
    /\ enemyBoard' = createEmptyBoard
    /\ status' = "Connecting..."
    /\ fetches' = fetches + 1
    /\ last' = Step("startBotGame")
    /\ UNCHANGED <<sockets, grid>>

\* mutant of startBotGameSync: the enemy board is not reset
startBotGameSyncKeepsRadar ==
    /\ sockets' = IF socketRef # 0
                  THEN [sockets EXCEPT ![socketRef] = closeSocket(@)]
                  ELSE sockets
    /\ socketRef' = 0
    /\ winner' = NONE
    /\ gameId' = ""
    /\ myBoard' = createEmptyBoard
    /\ status' = "Connecting..."
    /\ fetches' = fetches + 1
    /\ last' = Step("startBotGame")
    /\ UNCHANGED <<enemyBoard, grid>>

\* mutant of startBotGameSync: the winner of the last game is not cleared
startBotGameSyncKeepsWinner ==
    /\ sockets' = IF socketRef # 0
                  THEN [sockets EXCEPT ![socketRef] = closeSocket(@)]
                  ELSE sockets
    /\ socketRef' = 0
    /\ gameId' = ""
    /\ myBoard' = createEmptyBoard
    /\ enemyBoard' = createEmptyBoard
    /\ status' = "Connecting..."
    /\ fetches' = fetches + 1
    /\ last' = Step("startBotGame")
    /\ UNCHANGED <<winner, grid>>

\* startBotGame up to its first await
startBotGameSync ==
    /\ sockets' = IF socketRef # 0
                  THEN [sockets EXCEPT ![socketRef] = closeSocket(@)]
                  ELSE sockets
    /\ socketRef' = 0
    /\ winner' = NONE
    /\ gameId' = ""
    /\ myBoard' = createEmptyBoard
    /\ enemyBoard' = createEmptyBoard
    /\ status' = "Connecting..."
    /\ fetches' = fetches + 1
    /\ last' = Step("startBotGame")
    /\ UNCHANGED grid

\* a click on the button that calls startBotGame
startBotGame ==
    /\ StartButtonRendered
    /\ startBotGameSync

\* mutant of startBotGameResolved: the id of the response is not stored
startBotGameResolvedForgetsId(id) ==
    /\ fetches > 0
    /\ socketRef # 0 \/ Len(sockets) < MaxSockets
    /\ fetches' = fetches - 1
    /\ connectToWebsocket(id)
    /\ last' = [Step("created") EXCEPT !.ws = socketRef']
    /\ UNCHANGED <<gameId, status, winner, myBoard, enemyBoard>>
    /\ UNCHANGED grid

\* startBotGame after fetch and res.json() resolved with res.ok
startBotGameResolved(id) ==
    /\ fetches > 0
    /\ socketRef # 0 \/ Len(sockets) < MaxSockets
    /\ fetches' = fetches - 1
    /\ gameId' = id
    /\ connectToWebsocket(id)
    /\ last' = [Step("created") EXCEPT !.ws = socketRef']
    /\ UNCHANGED <<status, winner, myBoard, enemyBoard>>
    /\ UNCHANGED grid

\* mutant of startBotGameRejected: the failure puts the page back to its start
startBotGameRejectedResets ==
    /\ fetches > 0
    /\ fetches' = fetches - 1
    /\ status' = "Disconnected"
    /\ last' = Step("createFailed")
    /\ UNCHANGED <<gameId, winner, myBoard, enemyBoard, socketRef, sockets>>
    /\ UNCHANGED grid

\* startBotGame's catch: fetch rejected, !res.ok, or res.json() rejected
startBotGameRejected ==
    /\ fetches > 0
    /\ fetches' = fetches - 1
    /\ status' = "Error"
    /\ last' = Step("createFailed")
    /\ UNCHANGED <<gameId, winner, myBoard, enemyBoard, socketRef, sockets>>
    /\ UNCHANGED grid

\* mutant of onopen: the handler does not set the status
onopenSilent(ws) ==
    /\ sockets[ws].readyState = "CONNECTING"
    /\ sockets' = [sockets EXCEPT ![ws].readyState = "OPEN"]
    /\ last' = [Step("onopen") EXCEPT !.ws = ws]
    /\ UNCHANGED <<gameId, status, winner, myBoard, enemyBoard, socketRef, fetches>>
    /\ UNCHANGED grid

onopen(ws) ==
    /\ sockets[ws].readyState = "CONNECTING"
    /\ sockets' = [sockets EXCEPT ![ws].readyState = "OPEN"]
    /\ status' = "Battle Active"
    /\ last' = [Step("onopen") EXCEPT !.ws = ws]
    /\ UNCHANGED <<gameId, winner, myBoard, enemyBoard, socketRef, fetches>>
    /\ UNCHANGED grid

\* mutant of onmessageInit: the layout goes to the other board
onmessageInitOtherBoard(data) ==
    /\ enemyBoard' = data.board
    /\ UNCHANGED <<myBoard, winner, status, sockets, socketRef>>

\* the else-if chain of ws.onmessage on the parsed data
onmessageInit(data) ==
    /\ myBoard' = data.board
    /\ UNCHANGED <<enemyBoard, winner, status, sockets, socketRef>>

\* mutant of onmessageTurn: the winner branch closes ws but keeps socketRef
onmessageTurnKeepsRef(ws, tu) ==
    /\ enemyBoard' = IF tu.user.present
                     THEN updateGrid(enemyBoard, tu.user.row, tu.user.col, tu.user.result)
                     ELSE enemyBoard
    /\ myBoard' = IF tu.bot.present
                  THEN updateGrid(myBoard, tu.bot.row, tu.bot.col, tu.bot.result)
                  ELSE myBoard
    /\ IF tu.winner # NONE
       THEN /\ winner' = tu.winner
            /\ status' = IF tu.winner = "User" THEN "VICTORY" ELSE "DEFEAT"
            /\ sockets' = [sockets EXCEPT ![ws] = closeSocket(@)]
            /\ UNCHANGED socketRef
       ELSE UNCHANGED <<winner, status, sockets, socketRef>>

\* mutant of onmessageTurn: the winner branch drops socketRef without ws.close()
onmessageTurnNoClose(ws, tu) ==
    /\ enemyBoard' = IF tu.user.present
                     THEN updateGrid(enemyBoard, tu.user.row, tu.user.col, tu.user.result)
                     ELSE enemyBoard
    /\ myBoard' = IF tu.bot.present
                  THEN updateGrid(myBoard, tu.bot.row, tu.bot.col, tu.bot.result)
                  ELSE myBoard
    /\ IF tu.winner # NONE
       THEN /\ winner' = tu.winner
            /\ status' = IF tu.winner = "User" THEN "VICTORY" ELSE "DEFEAT"
            /\ socketRef' = 0
            /\ UNCHANGED sockets
       ELSE UNCHANGED <<winner, status, sockets, socketRef>>

onmessageTurn(ws, tu) ==
    /\ enemyBoard' = IF tu.user.present
                     THEN updateGrid(enemyBoard, tu.user.row, tu.user.col, tu.user.result)
                     ELSE enemyBoard
    /\ myBoard' = IF tu.bot.present
                  THEN updateGrid(myBoard, tu.bot.row, tu.bot.col, tu.bot.result)
                  ELSE myBoard
    /\ IF tu.winner # NONE
       THEN /\ winner' = tu.winner
            /\ status' = IF tu.winner = "User" THEN "VICTORY" ELSE "DEFEAT"
            /\ sockets' = [sockets EXCEPT ![ws] = closeSocket(@)]
            /\ socketRef' = 0
       ELSE UNCHANGED <<winner, status, sockets, socketRef>>

\* mutant of onmessageError: a rejected shot ends the session
onmessageErrorFatal(ws) ==
    /\ status' = "Error"
    /\ sockets' = [sockets EXCEPT ![ws] = closeSocket(@)]
    /\ socketRef' = 0
    /\ UNCHANGED <<myBoard, enemyBoard, winner>>

\* the last branch of the chain: console.warn and nothing else
onmessageError(ws) ==
    UNCHANGED <<myBoard, enemyBoard, winner, status, sockets, socketRef>>

onmessage(ws, frame) ==
    /\ sockets[ws].readyState = "OPEN"
    /\ UNCHANGED <<gameId, fetches>>
    /\ UNCHANGED grid
    /\ IF ParseThrows(frame)
       THEN /\ last' = [Step("onmessage") EXCEPT !.ws = ws, !.frame = frame, !.threw = TRUE]
            /\ UNCHANGED <<myBoard, enemyBoard, winner, status, sockets, socketRef>>
       ELSE /\ last' = [Step("onmessage") EXCEPT !.ws = ws, !.frame = frame]
            /\ IF frame.type = "init" /\ frame.hasBoard
               THEN onmessageInit(frame)
               ELSE IF frame.status = "success" /\ frame.hasTurn
               THEN onmessageTurn(ws, frame.turn_update)
               ELSE IF frame.status = "error"
               THEN onmessageError(ws)
               ELSE UNCHANGED <<myBoard, enemyBoard, winner, status, sockets, socketRef>>

\* the early return of handleShot
handleShotReturns(row, col) ==
    socketRef = 0 \/ winner # NONE \/ enemyBoard[row][col] # "Empty"

\* mutant of handleShot: the shot is marked on the radar before the answer
handleShotOptimistic(row, col) ==
    /\ EnemyGridRendered
    /\ last' = [Step("handleShot") EXCEPT
                  !.ws = socketRef, !.row = row, !.col = col,
                  !.sent = ~handleShotReturns(row, col)
                            /\ sockets[socketRef].readyState = "OPEN",
                  !.threw = ~handleShotReturns(row, col)
                             /\ sockets[socketRef].readyState = "CONNECTING"]
    /\ enemyBoard' = IF handleShotReturns(row, col)
                     THEN enemyBoard
                     ELSE updateGrid(enemyBoard, row, col, "Miss")
    /\ UNCHANGED <<gameId, status, winner, myBoard, socketRef, sockets, fetches>>
    /\ UNCHANGED grid

handleShot(row, col) ==
    /\ EnemyGridRendered
    /\ last' = [Step("handleShot") EXCEPT
                  !.ws = socketRef, !.row = row, !.col = col,
                  !.sent = ~handleShotReturns(row, col)
                            /\ sockets[socketRef].readyState = "OPEN",
                  !.threw = ~handleShotReturns(row, col)
                             /\ sockets[socketRef].readyState = "CONNECTING"]
    /\ UNCHANGED <<gameId, status, winner, myBoard, enemyBoard, socketRef,
                   sockets, fetches>>
    /\ UNCHANGED grid

\* The connection fails or is closed by the peer, or the closing handshake
\* the client began completes.  The component registers no onclose and no
\* onerror handler, so nothing but the socket changes.
connectionClosed(ws) ==
    /\ sockets[ws].readyState # "CLOSED"
    /\ sockets' = [sockets EXCEPT ![ws].readyState = "CLOSED"]
    /\ last' = [Step("connectionClosed") EXCEPT !.ws = ws]
    /\ UNCHANGED <<gameId, status, winner, myBoard, enemyBoard, socketRef, fetches>>
    /\ UNCHANGED grid

\* A frame of the server reaches a socket on which close() has been called
\* and whose closing handshake is not over: the browser drops it, no handler
\* of the page runs.
eventDiscarded(ws) ==
    /\ sockets[ws].readyState = "CLOSING"
    /\ last' = [Step("discarded") EXCEPT !.ws = ws]
    /\ UNCHANGED <<gameId, status, winner, myBoard, enemyBoard, socketRef,
                   sockets, fetches>>
    /\ UNCHANGED grid

Next ==
    \/ startBotGame /\ UNCHANGED shots
    \/ \E id \in SessionIds : startBotGameResolved(id) /\ UNCHANGED shots
    \/ startBotGameRejected /\ UNCHANGED shots
    \/ \E ws \in Sockets : onopen(ws) /\ UNCHANGED shots
    \/ \E ws \in Sockets, frame \in Frames : onmessage(ws, frame) /\ UNCHANGED shots
    \/ \E rc \in ClickCells : handleShot(rc[1], rc[2]) /\ UNCHANGED shots
    \/ \E ws \in Sockets : connectionClosed(ws) /\ UNCHANGED shots
    \/ \E ws \in Sockets : eventDiscarded(ws) /\ UNCHANGED shots

Spec == Init /\ [][Next]_vars

\* updateGrid alone, applied to a board over and over
NextGrid ==
    \E rc \in GridCells, result \in CellState :
        applyUpdateGrid(rc[1], rc[2], result) /\ UNCHANGED shots

SpecGrid == Init /\ [][NextGrid]_vars


----------------------------------------------------------------------------
(* The handlers of the current GamePage called as an API: startBotGame in    *)
(* any state, creation requests overlapping, the effect cleanup at any time. *)
(* Every behaviour of Spec is one of SpecApi.                                *)

\* startBotGame whatever is on screen
startBotGameCalled ==
    /\ fetches < MaxFetches
    /\ startBotGameSync

\* mutant of useEffectCleanup: close() without the test of socketRef.current
useEffectCleanupUnchecked ==
    /\ socketRef # 0 => sockets[socketRef].closeCalls = 0
    /\ sockets' = IF socketRef # 0
                  THEN [sockets EXCEPT ![socketRef] = closeSocket(@)]
                  ELSE sockets
    /\ last' = [Step("cleanup") EXCEPT !.ws = socketRef, !.threw = (socketRef = 0)]
    /\ UNCHANGED <<gameId, status, winner, myBoard, enemyBoard, socketRef, fetches>>
    /\ UNCHANGED grid

\* The cleanup returned by useEffect: close() on the held socket, which
\* stays held.  It runs once per mount; a held socket that has had a close()
\* has had it from the cleanup, every other close() drops the socket.
useEffectCleanup ==
    /\ socketRef # 0 => sockets[socketRef].closeCalls = 0
    /\ sockets' = IF socketRef # 0
                  THEN [sockets EXCEPT ![socketRef] = closeSocket(@)]
                  ELSE sockets
    /\ last' = [Step("cleanup") EXCEPT !.ws = socketRef]
    /\ UNCHANGED <<gameId, status, winner, myBoard, enemyBoard, socketRef, fetches>>
    /\ UNCHANGED grid

\* The boards do not enter the handling of connections: the turn updates
\* of SpecApi stay at the first coordinate of each side.
ApiFrames ==
    {f \in Frames :
        /\ f.turn_update.user.present
              => <<f.turn_update.user.row, f.turn_update.user.col>> = UserTargets[1]
        /\ f.turn_update.bot.present
              => <<f.turn_update.bot.row, f.turn_update.bot.col>> = BotTargets[1]}

NextApi ==
    \/ startBotGameCalled /\ UNCHANGED shots
    \/ \E id \in SessionIds : startBotGameResolved(id) /\ UNCHANGED shots
    \/ startBotGameRejected /\ UNCHANGED shots
    \/ \E ws \in Sockets : onopen(ws) /\ UNCHANGED shots
    \/ \E ws \in Sockets, frame \in ApiFrames : onmessage(ws, frame) /\ UNCHANGED shots
    \/ \E rc \in ClickCells : handleShot(rc[1], rc[2]) /\ UNCHANGED shots
    \/ \E ws \in Sockets : connectionClosed(ws) /\ UNCHANGED shots
    \/ useEffectCleanup /\ UNCHANGED shots

SpecApi == Init /\ [][NextApi]_vars

----------------------------------------------------------------------------
(* The draft GamePage (second component of the file).  It shares            *)
(* startBotGame's synchronous part, the success path of its continuation,   *)
(* ws.onopen and the absence of onclose/onerror with the current component. *)

\* An init frame without a board would leave myBoard undefined and the next
\* render would throw; the draft is followed on the other frames.
DraftFrames == Frames \ {InitNoBoardFrame}

startBotGameRejectedDraft ==
    /\ fetches > 0
    /\ fetches' = fetches - 1
    /\ status' = "Error creating game"
    /\ last' = Step("createFailed")
    /\ UNCHANGED <<gameId, winner, myBoard, enemyBoard, socketRef, sockets>>
    /\ UNCHANGED grid

onmessageTurnDraft(ws, tu) ==
    /\ enemyBoard' = IF tu.user.present
                     THEN updateGrid(enemyBoard, tu.user.row, tu.user.col, tu.user.result)
                     ELSE enemyBoard
    /\ myBoard' = IF tu.bot.present
                  THEN updateGrid(myBoard, tu.bot.row, tu.bot.col, tu.bot.result)
                  ELSE myBoard
    /\ IF tu.winner # NONE
       THEN /\ winner' = tu.winner
            /\ status' = IF tu.winner = "User" THEN "Winner: User" ELSE "Winner: Bot"
            /\ sockets' = [sockets EXCEPT ![ws] = closeSocket(@)]
            /\ socketRef' = 0
       ELSE UNCHANGED <<winner, status, sockets, socketRef>>

onmessageDraft(ws, frame) ==
    /\ sockets[ws].readyState = "OPEN"
    /\ UNCHANGED <<gameId, fetches>>
    /\ UNCHANGED grid
    /\ IF ParseThrows(frame)
       THEN /\ last' = [Step("onmessage") EXCEPT !.ws = ws, !.frame = frame, !.threw = TRUE]
            /\ UNCHANGED <<myBoard, enemyBoard, winner, status, sockets, socketRef>>
       ELSE /\ last' = [Step("onmessage") EXCEPT !.ws = ws, !.frame = frame]
            /\ IF frame.type = "init"
               THEN onmessageInit(frame)
               ELSE IF frame.status = "error"
               THEN onmessageError(ws)
               ELSE IF frame.status = "success" /\ frame.hasTurn
               THEN onmessageTurnDraft(ws, frame.turn_update)
               ELSE UNCHANGED <<myBoard, enemyBoard, winner, status, sockets, socketRef>>

\* the early return of the draft's handleShot
handleShotReturnsDraft(row, col) == socketRef = 0 \/ winner # NONE

handleShotDraft(row, col) ==
    /\ EnemyGridRendered
    /\ last' = [Step("handleShot") EXCEPT
                  !.ws = socketRef, !.row = row, !.col = col,
                  !.sent = ~handleShotReturnsDraft(row, col)
                            /\ sockets[socketRef].readyState = "OPEN",
                  !.threw = ~handleShotReturnsDraft(row, col)
                             /\ sockets[socketRef].readyState = "CONNECTING"]
    /\ UNCHANGED <<gameId, status, winner, myBoard, enemyBoard, socketRef,
                   sockets, fetches>>
    /\ UNCHANGED grid

\* The draft does not test res.ok: a non-success response whose body is JSON
\* (an error object, so data.game_id is undefined) goes on to setGameId and
\* connectToWebsocket.  gameId is only ever tested for truthiness, so the
\* undefined id is stored as the empty one; the socket's URL ends in
\* "/ws/undefined".
startBotGameNonOkDraft ==
    /\ fetches > 0
    /\ Len(sockets) < MaxSockets
    /\ fetches' = fetches - 1
    /\ gameId' = ""
    /\ connectToWebsocket("undefined")
    /\ last' = [Step("createFailed") EXCEPT !.ws = socketRef']
    /\ UNCHANGED <<status, winner, myBoard, enemyBoard>>
    /\ UNCHANGED grid

NextDraft ==
    \/ startBotGame /\ UNCHANGED shots
    \/ \E id \in SessionIds : startBotGameResolved(id) /\ UNCHANGED shots
    \/ startBotGameRejectedDraft /\ UNCHANGED shots
    \/ startBotGameNonOkDraft /\ UNCHANGED shots
    \/ \E ws \in Sockets : onopen(ws) /\ UNCHANGED shots
    \/ \E ws \in Sockets, frame \in DraftFrames : onmessageDraft(ws, frame) /\ UNCHANGED shots
    \/ \E rc \in ClickCells : handleShotDraft(rc[1], rc[2]) /\ UNCHANGED shots
    \/ \E ws \in Sockets : connectionClosed(ws) /\ UNCHANGED shots

SpecDraft == Init /\ [][NextDraft]_vars

----------------------------------------------------------------------------
(* Vocabulary of the claims *)

\* the spec's names for the states of the session
Active == status = "Battle Active"
Completed == status \in {"VICTORY", "DEFEAT"}

\* the place of a status on Idle -> Creating/Connected -> Active -> Completed;
\* "Connecting..." is shown from the creation request until the socket opens
Rank(st) ==
    CASE st = "Disconnected" -> 0
      [] st = "Connecting..." -> 1
      [] st = "Battle Active" -> 2
      [] st \in {"VICTORY", "DEFEAT"} -> 3
      [] OTHER -> 4

\* a connection the client has not closed and the network has not lost
Live(ws) == sockets[ws].readyState \in {"CONNECTING", "OPEN"}

\* the last task was a click on enemy cell (row, col)
Fired == last.op = "handleShot"

\* the shapes ws.onmessage tells apart, in the order it tests them
IsInit(frame) == frame.text = "object" /\ frame.type = "init" /\ frame.hasBoard
IsSuccess(frame) ==
    frame.text = "object" /\ ~IsInit(frame) /\ frame.status = "success" /\ frame.hasTurn

IsError(frame) ==
    frame.text = "object" /\ ~IsInit(frame) /\ ~IsSuccess(frame) /\ frame.status = "error"

\* the connection state of every socket made so far
ReadyStates == [ws \in Sockets |-> sockets[ws].readyState]

\* the socket the session holds, if any, is in the given state
HeldSocketIs(state) == socketRef # 0 /\ sockets[socketRef].readyState = state

\* nothing of the session but the record of the last task changes
SessionUnchanged ==
    UNCHANGED <<gameId, status, winner, myBoard, enemyBoard, socketRef, sockets, fetches>>

----------------------------------------------------------------------------
(* C1 *)

\* C1: in every step that is a fireShot(r, c) call made while enemyRadar[r][c]
\* is not Empty, nothing is transmitted.  Stated for the draft component
\* (SpecDraft), whose handleShot does not look at the cell: violated there.
C1_NoShotAtTargetedCell ==
    [][(last'.op = "handleShot" /\ enemyBoard[last'.row][last'.col] # "Empty")
          => ~last'.sent]_vars

----------------------------------------------------------------------------
(* C2 *)

\* C2: a fireShot call transmits only when the status is Active, the
\* connection is established and not closed, and no winner is set; in every
\* other state the call is a silent no-op: nothing is sent, no error is
\* raised and no state changes.
C2_FireShotOnlyWhenActive ==
    [][last'.op = "handleShot" =>
          /\ last'.sent => (Active /\ HeldSocketIs("OPEN") /\ winner = NONE)
          /\ ~(Active /\ HeldSocketIs("OPEN") /\ winner = NONE)
                => (~last'.sent /\ ~last'.threw /\ SessionUnchanged)]_vars

----------------------------------------------------------------------------
(* C3 *)

\* C3: once set, winner changes only when startBotGame clears it for a new
\* session instance; the step that sets it makes the status VICTORY (User) or
\* DEFEAT (Bot), closes the connection that delivered the outcome and drops
\* the handle; and close() is never called twice on one connection.
C3_WinnerSetOnce ==
    [][/\ winner # NONE => (winner' = winner \/ (last'.op = "startBotGame" /\ winner' = NONE))
       /\ (winner = NONE /\ winner' # NONE) =>
             /\ last'.op = "onmessage"
             /\ status' = (IF winner' = "User" THEN "VICTORY" ELSE "DEFEAT")
             /\ sockets[last'.ws].closeCalls = 0
             /\ sockets'[last'.ws].closeCalls = 1
             /\ socketRef' = 0
       /\ \A ws \in 1 .. Len(sockets') : sockets'[ws].closeCalls <= 1]_vars

\* a turn outcome has just named User the winner over the connection it closed
C3_Witness ==
    /\ last.op = "onmessage"
    /\ IsSuccess(last.frame)
    /\ last.frame.turn_update.winner = "User"
    /\ winner = "User"
    /\ status = "VICTORY"
    /\ sockets[last.ws].closeCalls = 1
    /\ socketRef = 0

----------------------------------------------------------------------------
(* C4 *)

\* C4: while a winner is set (from the winner-carrying outcome until the next
\* startBotGame) the status is VICTORY for User and DEFEAT for Bot, no
\* connection is live, the handle is discarded, and no fireShot call
\* transmits anything.
C4_TerminalAfterWinner ==
    winner # NONE =>
        /\ status = (IF winner = "User" THEN "VICTORY" ELSE "DEFEAT")
        /\ socketRef = 0
        /\ \A ws \in Sockets : ~Live(ws) /\ sockets[ws].closeCalls = 1
        /\ Fired => (~last.sent /\ ~last.threw)

\* a shot was fired at an Empty enemy cell after the defeat
C4_Witness ==
    /\ winner = "Bot"
    /\ Fired
    /\ enemyBoard[last.row][last.col] = "Empty"

----------------------------------------------------------------------------
(* C5 *)

\* the frame is not valid structured data, or matches none of Init,
\* Result(success), Result(error)
Unrecognized(frame) ==
    \/ frame.text # "object"
    \/ ~(frame.type = "init" /\ frame.hasBoard)
       /\ ~(frame.status = "success" /\ frame.hasTurn)
       /\ frame.status # "error"

\* C5: handling an invalid or unrecognized frame raises no unhandled error
\* and leaves status, winner, both boards and the connection unchanged.
C5_BadFrameIsBenign ==
    [][(last'.op = "onmessage" /\ Unrecognized(last'.frame))
          => (~last'.threw /\ SessionUnchanged)]_vars

----------------------------------------------------------------------------
(* C6 *)

\* C6: after updateGrid(board, r, c, result) the snapshot it was given still
\* holds what it held before the call, and the snapshot it returns holds
\* result at (r, c) and the input's value at every other cell (which is the
\* board updateGrid yields in the session model).
C6_UpdateGridCopyOnWrite ==
    grid.calls > 0 =>
        /\ Deref(grid.heap, grid.prev) = grid.prevValue
        /\ \A r \in Index, c \in Index :
              Deref(grid.heap, grid.board)[r][c] =
                 IF r = grid.row /\ c = grid.col THEN grid.result
                 ELSE grid.prevValue[r][c]
        /\ Deref(grid.heap, grid.board) =
              updateGrid(grid.prevValue, grid.row, grid.col, grid.result)

\* a second update in a row the first update already wrote to
C6_Witness ==
    /\ grid.calls = 2
    /\ grid.row = 3 /\ grid.col = 5 /\ grid.result = "Miss"
    /\ grid.prevValue[3][4] = "Hit"
    /\ Deref(grid.heap, grid.prev)[3][5] = "Empty"

----------------------------------------------------------------------------
(* C7 *)

\* C7: the step that handles a success turn outcome without a winner writes
\* the user result (when present) to enemyBoard and the bot result (when
\* present) to myBoard at their coordinates, leaves every other cell of both
\* boards as it was, leaves winner unset and leaves the status Active.
C7_TurnOutcomeApplied ==
    [][(/\ last'.op = "onmessage"
        /\ IsSuccess(last'.frame)
        /\ last'.frame.turn_update.winner = NONE)
       => LET tu == last'.frame.turn_update
          IN  /\ \A r \in Index, c \in Index :
                    /\ enemyBoard'[r][c] =
                          IF tu.user.present /\ r = tu.user.row /\ c = tu.user.col
                          THEN tu.user.result ELSE enemyBoard[r][c]
                    /\ myBoard'[r][c] =
                          IF tu.bot.present /\ r = tu.bot.row /\ c = tu.bot.col
                          THEN tu.bot.result ELSE myBoard[r][c]
              /\ winner = NONE /\ winner' = NONE
              /\ Active /\ Active']_vars

\* the spec's scenario: user (3,4) Hit and bot (7,7) Miss over a revealed fleet
C7_Witness ==
    /\ last.op = "onmessage"
    /\ IsSuccess(last.frame)
    /\ last.frame.turn_update =
          [user |-> [present |-> TRUE, row |-> 3, col |-> 4, result |-> "Hit"],
           bot |-> [present |-> TRUE, row |-> 7, col |-> 7, result |-> "Miss"],
           winner |-> NONE]
    /\ enemyBoard[3][4] = "Hit"
    /\ myBoard[7][7] = "Miss"
    /\ myBoard[7][8] = "Ship"
    /\ Active

----------------------------------------------------------------------------
(* C8 *)

\* C8: the step that handles an Init frame carrying a board makes myBoard
\* equal to that board and leaves enemyBoard, status and winner unchanged.
C8_InitOverwritesOwnFleet ==
    [][(last'.op = "onmessage" /\ IsInit(last'.frame))
          => /\ myBoard' = last'.frame.board
             /\ UNCHANGED <<enemyBoard, status, winner>>]_vars

\* a fleet layout arrived after the radar already showed a hit
C8_Witness ==
    /\ last.op = "onmessage"
    /\ IsInit(last.frame)
    /\ last.frame.board = FleetBoard
    /\ myBoard = FleetBoard
    /\ enemyBoard[3][4] = "Hit"

----------------------------------------------------------------------------
(* C9 *)

\* the network either establishes a connection or reports that it failed or
\* closed, and the browser delivers the open event of an established one
\* The coordinates of the turn updates do not enter the life of a
\* connection: they stay at the first of each side, as in SpecApi.
NextLive ==
    \/ startBotGame /\ UNCHANGED shots
    \/ \E id \in SessionIds : startBotGameResolved(id) /\ UNCHANGED shots
    \/ startBotGameRejected /\ UNCHANGED shots
    \/ \E ws \in Sockets : onopen(ws) /\ UNCHANGED shots
    \/ \E ws \in Sockets, frame \in ApiFrames : onmessage(ws, frame) /\ UNCHANGED shots
    \/ \E rc \in ClickCells : handleShot(rc[1], rc[2]) /\ UNCHANGED shots
    \/ \E ws \in Sockets : connectionClosed(ws) /\ UNCHANGED shots

LiveSpec ==
    /\ Init
    /\ [][NextLive]_vars
    /\ WF_vars(\E ws \in 1 .. MaxSockets :
                  ws \in Sockets /\ onopen(ws) /\ UNCHANGED shots)

\* C9: the continuation of a successful creation with id s opens one new
\* connection addressed by s and holds it; the open event of a connection
\* makes the status Active; and a successful creation leads to status Active
\* unless the connection fails or is closed before it is established.
C9_CreateConnectActive ==
    /\ [][last'.op = "created" =>
             /\ Len(sockets') = Len(sockets) + 1
             /\ socketRef' = Len(sockets')
             /\ sockets'[socketRef'] =
                   [id |-> gameId', readyState |-> "CONNECTING", closeCalls |-> 0]]_vars
    /\ [][last'.op = "onopen" =>
             /\ sockets[last'.ws].readyState = "CONNECTING"
             /\ sockets'[last'.ws].readyState = "OPEN"
             /\ Active']_vars
    /\ (last.op = "created") ~> (Active \/ ~HeldSocketIs("CONNECTING"))

\* the spec's scenario: the connection of session abc123 is established
C9_Witness ==
    /\ last.op = "onopen"
    /\ gameId = "abc123"
    /\ HeldSocketIs("OPEN")
    /\ sockets[socketRef].id = "abc123"
    /\ Active

----------------------------------------------------------------------------
(* C10 *)

\* C10: the step in which a live connection fails or closes while no winner
\* is set makes the status Error, and opens no new connection.
C10_ConnectionLossErrors ==
    [][(last'.op = "connectionClosed" /\ Live(last'.ws) /\ winner = NONE)
          => (status' = "Error" /\ Len(sockets') = Len(sockets))]_vars

----------------------------------------------------------------------------
(* C11 *)

\* the spec's Errored status, as either component spells it
Errored == status \in {"Error", "Error creating game"}

\* C11: in every step in which a session-creation request fails in transport
\* or comes back with a non-success response, the status becomes Errored, no
\* connection is opened for that request, and both boards are all-Empty.
\* Stated for the draft component (SpecDraft), which does not test res.ok:
\* violated there.
C11_CreateFailureErrors ==
    [][last'.op = "createFailed"
          => /\ Errored'
             /\ sockets' = sockets
             /\ socketRef' = 0
             /\ myBoard' = createEmptyBoard
             /\ enemyBoard' = createEmptyBoard]_vars

----------------------------------------------------------------------------
(* C12 *)

\* C12: every startMission step closes the connection the session held (one
\* more close() on it) and discards it, clears the winner and resets both
\* boards, and issues one creation request; in the state in which the request
\* is issued no connection is live and every cell of both boards is Empty.
C12_StartMissionResets ==
    [][last'.op = "startBotGame"
          => /\ socketRef' = 0
             /\ Len(sockets') = Len(sockets)
             /\ \A ws \in Sockets :
                   /\ sockets'[ws].readyState \notin {"CONNECTING", "OPEN"}
                   /\ sockets'[ws].closeCalls =
                         sockets[ws].closeCalls + (IF ws = socketRef THEN 1 ELSE 0)
             /\ winner' = NONE
             /\ myBoard' = createEmptyBoard
             /\ enemyBoard' = createEmptyBoard
             /\ fetches' = fetches + 1]_vars

\* a restart in mid-game: the open socket has been closed by startBotGame
C12_Witness ==
    /\ last.op = "startBotGame"
    /\ Len(sockets) = 1
    /\ sockets[1].readyState = "CLOSING"
    /\ sockets[1].closeCalls = 1
    /\ socketRef = 0
    /\ fetches = 1

----------------------------------------------------------------------------
(* C13 *)

\* C13: a step that handles an inbound Result(error) changes nothing of the
\* session (status, winner, both boards, the connection) and raises nothing;
\* and a fireShot that follows it at a cell that is Empty on enemyRadar is
\* transmitted.
C13_ErrorResultIsBenign ==
    [][/\ (last'.op = "onmessage" /\ IsError(last'.frame))
            => (SessionUnchanged /\ ~last'.threw)
       /\ (/\ last.op = "onmessage" /\ IsError(last.frame)
           /\ last'.op = "handleShot"
           /\ enemyBoard[last'.row][last'.col] = "Empty")
            => (last'.sent /\ ~last'.threw)]_vars

\* an error result arrives in mid-game: a shot has hit, the fleet is laid
\* out, the socket is open and there is an Empty cell left to fire at
C13_Witness ==
    /\ last.op = "onmessage"
    /\ IsError(last.frame)
    /\ HeldSocketIs("OPEN")
    /\ Active
    /\ enemyBoard[3][4] = "Hit"
    /\ enemyBoard[7][7] = "Empty"
    /\ myBoard = FleetBoard

----------------------------------------------------------------------------
(* C14 *)

\* C14: a fireShot step changes neither board; a step that changes a board
\* is the handling of an inbound Init or of a success turn outcome, or the
\* reset of startMission.
C14_BoardsChangeOnlyOnInbound ==
    [][/\ last'.op = "handleShot" => UNCHANGED <<myBoard, enemyBoard>>
       /\ (myBoard' # myBoard \/ enemyBoard' # enemyBoard)
            => \/ last'.op = "startBotGame"
               \/ /\ last'.op = "onmessage"
                  /\ IsInit(last'.frame) \/ IsSuccess(last'.frame)]_vars

\* a shot has just been transmitted and its cell is still Empty on the radar
C14_Witness ==
    /\ Fired
    /\ last.sent
    /\ enemyBoard[last.row][last.col] = "Empty"
    /\ myBoard = FleetBoard

----------------------------------------------------------------------------
(* C15 *)

----------------------------------------------------------------------------
(* C16 *)

\* C16: a close made when the session holds no connection, or holds one that
\* is already closed or closing, raises no error and changes the state of no
\* connection; the close of the effect cleanup changes nothing else of the
\* session either.  A second close after a first is such a close, so two
\* closes in a row leave the state one close leaves.
C16_CloseIdempotent ==
    [][(/\ last'.op \in {"cleanup", "startBotGame"}
        /\ socketRef = 0 \/ ~Live(socketRef))
          => /\ ~last'.threw
             /\ ReadyStates' = ReadyStates
             /\ last'.op = "cleanup"
                  => UNCHANGED <<gameId, status, winner, myBoard, enemyBoard,
                                 socketRef, fetches>>]_vars

\* the cleanup closed the open socket and startBotGame closed it again
C16_Witness ==
    /\ last.op = "startBotGame"
    /\ Len(sockets) = 1
    /\ sockets[1].closeCalls = 2
    /\ sockets[1].readyState = "CLOSING"
    /\ socketRef = 0

----------------------------------------------------------------------------
(* C17 *)

\* C17: in every step that is not a startMission, the status does not move
\* backward along Idle -> Creating -> Connected -> Active -> Completed, and a
\* status that is Completed or Errored stays as it is.
C17_StatusMonotone ==
    [][last'.op # "startBotGame"
          => /\ (Completed \/ Errored) => status' = status
             /\ ~Errored' => Rank(status') >= Rank(status)]_vars

\* the player clicks an enemy cell after the game is won
C17_Witness ==
    /\ Completed
    /\ winner = "User"
    /\ Fired
    /\ ~last.sent

----------------------------------------------------------------------------
(* C18 *)

\* a cell that has left Empty does not return to it, and a cell that is Hit
\* or Miss keeps its value, from board b to board c
CellsMonotone(b, c) ==
    \A row \in Index, col \in Index :
        /\ b[row][col] # "Empty" => c[row][col] # "Empty"
        /\ b[row][col] \in {"Hit", "Miss"} => c[row][col] = b[row][col]

\* C18: in every step that is not a startMission, on both boards, a cell
\* that is not Empty does not become Empty and a cell that is Hit or Miss
\* does not change, whatever Init and turn-outcome events arrive.
C18_CellsMonotone ==
    [][last'.op # "startBotGame"
          => /\ CellsMonotone(myBoard, myBoard')
             /\ CellsMonotone(enemyBoard, enemyBoard')]_vars

----------------------------------------------------------------------------
(* C19 *)

\* The game engine is not part of page.tsx.  By the protocol the user part
\* of a turn outcome reports a shot the client transmitted on the connection,
\* and its result is Hit or Miss; every other frame is as in Spec.
EngineSends(frame) ==
    (IsSuccess(frame) /\ frame.turn_update.user.present)
        => /\ <<frame.turn_update.user.row, frame.turn_update.user.col>> \in shots
           /\ frame.turn_update.user.result \in {"Hit", "Miss"}

\* The bot's shots land on myBoard and do not enter the radar: they stay at
\* the first coordinate.
EngineFrames ==
    {f \in Frames :
        f.turn_update.bot.present
            => <<f.turn_update.bot.row, f.turn_update.bot.col>> = BotTargets[1]}

\* the current GamePage against such an engine, with the transmitted shots recorded
NextEngine ==
    \/ startBotGame /\ shots' = {}
    \/ \E id \in SessionIds : startBotGameResolved(id) /\ UNCHANGED shots
    \/ startBotGameRejected /\ UNCHANGED shots
    \/ \E ws \in Sockets : onopen(ws) /\ UNCHANGED shots
    \/ \E ws \in Sockets, frame \in EngineFrames :
          EngineSends(frame) /\ onmessage(ws, frame) /\ UNCHANGED shots
    \/ \E rc \in ClickCells :
          handleShot(rc[1], rc[2]) /\ shots' = IF last'.sent THEN shots \cup {rc} ELSE shots
    \/ \E ws \in Sockets : connectionClosed(ws) /\ UNCHANGED shots

SpecEngine == Init /\ [][NextEngine]_vars

----------------------------------------------------------------------------
(* C20 *)

----------------------------------------------------------------------------
(* C21 *)

\* C21: in every reachable state the winner is User exactly when the status
\* is VICTORY, the winner is Bot exactly when the status is DEFEAT, and while
\* a winner is set no connection is live.
C21_WinnerAgreesWithStatus ==
    /\ winner = "User" <=> status = "VICTORY"
    /\ winner = "Bot" <=> status = "DEFEAT"
    /\ winner # NONE => \A ws \in Sockets : ~Live(ws)

\* the bot has just won: DEFEAT is shown and the socket has been closed
C21_Witness ==
    /\ last.op = "onmessage"
    /\ IsSuccess(last.frame)
    /\ winner = "Bot"
    /\ status = "DEFEAT"
    /\ socketRef = 0
    /\ sockets[last.ws].readyState = "CLOSING"

----------------------------------------------------------------------------
(* C22 *)

\* C22: a step in which an event of a connection the session no longer
\* holds arrives (its open signal, a frame handled by its onmessage, or a
\* frame the browser drops) changes neither the status, the winner, the
\* boards nor the connection handle.
C22_OldConnectionIsSilent ==
    [][(/\ last'.op \in {"onopen", "onmessage", "discarded"}
        /\ last'.ws # socketRef)
          => UNCHANGED <<status, winner, myBoard, enemyBoard, socketRef>>]_vars

\* startBotGame has closed the connection of a game in progress and issued
\* the next creation request; a frame of the old game arrives
C22_Witness ==
    /\ last.op = "discarded"
    /\ last.ws # socketRef
    /\ sockets[last.ws].closeCalls = 1
    /\ status = "Connecting..."
    /\ winner = NONE
    /\ gameId = ""
    /\ fetches = 1

====
